---- MODULE Spec2Model ----
(***************************************************************************)
(* Model of the DNS message codec of src/src/lib.rs: Message, Header,      *)
(* Question and Resource, the query-building setters, get_packet and       *)
(* Message::from.                                                          *)
(*                                                                         *)
(* A Vec<u8> is a sequence of numbers in 0..255, indexed from 0 through    *)
(* At.  A String is the sequence of its chars (Unicode scalar values).     *)
(* A Result is a record [kind, val]: kind "Ok", or the DnsError variant    *)
(* with the value it carries.  An indexing panic of Message::from is the   *)
(* outcome "panic".                                                        *)
(***************************************************************************)
EXTENDS Integers, Sequences, FiniteSets, TLC

VARIABLES msg, built, last

vars == <<msg, built, last>>

(***************************************************************************)
(* Bounds of the model.                                                    *)
(***************************************************************************)
MaxQuestions == 2
MaxNames == 2
MaxNameLen == 2

(***************************************************************************)
(* Integer helpers.                                                        *)
(***************************************************************************)
U16 == 65536

U8 == 256

HeaderLen == 12

RECURSIVE BitAnd(_, _)
BitAnd(a, b) ==
    IF a = 0 \/ b = 0 THEN 0
    ELSE (a % 2) * (b % 2) + 2 * BitAnd(a \div 2, b \div 2)

Shr(a, n) == a \div (2 ^ n)

to_be_bytes(x) == <<x \div U8, x % U8>>

from_be_bytes(hi, lo) == hi * U8 + lo

Min(S) == CHOOSE x \in S : \A y \in S : x <= y

Max(S) == CHOOSE x \in S : \A y \in S : x >= y

\* ss[lo] \o ... \o ss[hi]
RECURSIVE ConcatRange(_, _, _)
ConcatRange(ss, lo, hi) ==
    IF lo > hi THEN <<>>
    ELSE IF lo = hi THEN ss[lo]
    ELSE LET mid == (lo + hi) \div 2
         IN  ConcatRange(ss, lo, mid) \o ConcatRange(ss, mid + 1, hi)

Concat(ss) == ConcatRange(ss, 1, Len(ss))

Ok == [kind |-> "Ok", val |-> 0]

Err(kind, val) == [kind |-> kind, val |-> val]

(***************************************************************************)
(* Header                                                                  *)
(***************************************************************************)
Header_new(id) ==
    [id |-> id, flags |-> 0, qdcount |-> 0, ancount |-> 0, nscount |-> 0,
     arcount |-> 0]

set_id(header, id) == [header EXCEPT !.id = id]

\* the opcode shifted by the wrong amount
OpcodeTest_shift13(flags) == Shr(BitAnd(flags, 30720), 13)

OpcodeTest(flags) == Shr(BitAnd(flags, 30720), 11)

\* a Z mask that misses bit 6
ZTest_mask48(flags) == Shr(BitAnd(flags, 48), 4)

ZTest(flags) == Shr(BitAnd(flags, 112), 4)

RcodeTest(flags) == BitAnd(flags, 15)

set_flags(header, flags) ==
    IF OpcodeTest(flags) > 2
    THEN [header |-> header, ret |-> Err("InvalidOpcodeFlag", OpcodeTest(flags))]
    ELSE IF ZTest(flags) # 0
    THEN [header |-> header, ret |-> Err("InvalidZFlag", ZTest(flags))]
    ELSE IF RcodeTest(flags) > 5
    THEN [header |-> header, ret |-> Err("InvalidRcodeFlag", RcodeTest(flags))]
    ELSE [header |-> [header EXCEPT !.flags = flags], ret |-> Ok]

(***************************************************************************)
(* Question                                                                *)
(***************************************************************************)
Question_new == [qname |-> <<>>, qtype |-> 1, qclass |-> 1]

ValidQTypes ==
    {1, 2, 5, 6, 12, 13, 15, 16, 17, 18, 24, 25, 28, 29, 33, 35, 36, 37, 39,
     41, 42, 43, 44, 45, 46, 47, 48, 49, 50, 51, 52, 53, 55, 59, 60, 61, 62,
     63, 64, 65, 108, 109, 249, 250, 251, 252, 255, 256, 257, 32768, 32769}

set_qtype(q, qtype) ==
    IF qtype \in ValidQTypes
    THEN [question |-> [q EXCEPT !.qtype = qtype], ret |-> Ok]
    ELSE [question |-> q, ret |-> Err("InvalidQType", qtype)]

\* the unassigned range taken one too far: 254 (NONE) rejected
InvalidQClasses_254 == {0} \cup (5..254) \cup (256..65279) \cup {65535}

InvalidQClasses == {0} \cup (5..253) \cup (256..65279) \cup {65535}

set_qclass(q, qclass) ==
    IF qclass \in InvalidQClasses
    THEN [question |-> q, ret |-> Err("InvalidQClass", qclass)]
    ELSE [question |-> [q EXCEPT !.qclass = qclass], ret |-> Ok]

(***************************************************************************)
(* Strings: str::split('.'), str::trim, str::len, char as u8.              *)
(***************************************************************************)
Dot == 46

is_whitespace(c) ==
    c \in (9..13) \cup {32, 133, 160, 5760} \cup (8192..8202)
          \cup {8232, 8233, 8239, 8287, 12288}

\* the parts of s between the occurrences of sep, empty parts included
split(s, sep) ==
    LET at == {i \in 1..Len(s) : s[i] = sep}
        n == Cardinality(at) + 1
        nth(k) == IF k = 0 THEN 0
                  ELSE IF k = n THEN Len(s) + 1
                  ELSE CHOOSE d \in at : Cardinality({e \in at : e <= d}) = k
    IN  [k \in 1..n |-> SubSeq(s, nth(k - 1) + 1, nth(k) - 1)]

\* s without its leading and trailing whitespace
trim(s) ==
    LET keep == {i \in 1..Len(s) : ~is_whitespace(s[i])}
    IN  IF keep = {} THEN <<>> ELSE SubSeq(s, Min(keep), Max(keep))

len_utf8(c) ==
    IF c < 128 THEN 1 ELSE IF c < 2048 THEN 2 ELSE IF c < 65536 THEN 3 ELSE 4

\* the UTF-8 length of s[lo..hi]
RECURSIVE str_len_range(_, _, _)
str_len_range(s, lo, hi) ==
    IF lo > hi THEN 0
    ELSE IF lo = hi THEN len_utf8(s[lo])
    ELSE LET mid == (lo + hi) \div 2
         IN  str_len_range(s, lo, mid) + str_len_range(s, mid + 1, hi)

str_len(s) == str_len_range(s, 1, Len(s))

as_u8(n) == n % U8

(***************************************************************************)
(* Message::new and Message::set_questions                                 *)
(***************************************************************************)
Message_new(id) ==
    [header |-> Header_new(id), question |-> <<>>, answer |-> <<>>,
     authority |-> <<>>, additional |-> <<>>]

\* lines 88-93: the length byte and the chars of one part
new_parts_of(part) ==
    <<as_u8(str_len(part))>> \o [k \in 1..Len(part) |-> as_u8(part[k])]

\* lines 83-93: the bytes one element of `questions` contributes
label_bytes(label) ==
    LET parts == split(label, Dot)
    IN  Concat([k \in 1..Len(parts) |-> new_parts_of(trim(parts[k]))])

\* lines 81-96: res, the single qname built from all of `questions`
questions_res(questions) ==
    Append(Concat([k \in 1..Len(questions) |-> label_bytes(questions[k])]), 0)

\* set_questions that forgets to count the question it adds
set_questions_nocount(m, questions) ==
    [msg |-> [m EXCEPT !.question = Append(@, [qname |-> questions_res(questions),
                                               qtype |-> 0, qclass |-> 0])],
     ret |-> Ok]

\* qdcount += 1 wraps at 2^16 in a release build (it panics in a debug
\* build); MaxQuestions keeps the count far below that
set_questions(m, questions) ==
    [msg |-> [m EXCEPT !.header.qdcount = (@ + 1) % U16,
                       !.question = Append(@, [qname |-> questions_res(questions),
                                               qtype |-> 0, qclass |-> 0])],
     ret |-> Ok]

(***************************************************************************)
(* Message::get_packet                                                     *)
(***************************************************************************)
question_bytes(q) == q.qname \o to_be_bytes(q.qtype) \o to_be_bytes(q.qclass)

header_bytes(h) ==
    to_be_bytes(h.id) \o to_be_bytes(h.flags) \o to_be_bytes(h.qdcount)
        \o to_be_bytes(h.ancount) \o to_be_bytes(h.nscount)
        \o to_be_bytes(h.arcount)

\* self.question[i] panics when qdcount exceeds the number of questions held
get_packet(m) ==
    IF m.header.qdcount > Len(m.question)
    THEN [panic |-> TRUE, bytes |-> <<>>]
    ELSE [panic |-> FALSE,
          bytes |-> header_bytes(m.header)
                      \o Concat([k \in 1..m.header.qdcount |->
                                    question_bytes(m.question[k])])]

(***************************************************************************)
(* Message::from and Message::get_resource.  Every vec[i] with i at or     *)
(* past the end of vec is an index-out-of-bounds panic.                    *)
(***************************************************************************)
At(vec, i) == vec[i + 1]

InBounds(vec, i) == i < Len(vec)

Panicked == [panic |-> TRUE, i |-> 0, val |-> <<>>]

Read(i, val) == [panic |-> FALSE, i |-> i, val |-> val]

\* the while loop that copies bytes up to the first zero byte at or after
\* i; the cursor is left on the zero byte
read_until_zero(vec, i) ==
    LET zeros == {j \in i..(Len(vec) - 1) : At(vec, j) = 0}
    IN  IF zeros = {} THEN Panicked
        ELSE Read(Min(zeros), SubSeq(vec, i + 1, Min(zeros)))

\* u16::from_be_bytes([vec[i], vec[i + 1]]); i += 2
read_u16(vec, i) ==
    IF ~InBounds(vec, i + 1) THEN Panicked
    ELSE Read(i + 2, from_be_bytes(At(vec, i), At(vec, i + 1)))

\* u32::from_be_bytes([vec[i], .., vec[i + 3]]); i += 4
read_u32(vec, i) ==
    IF ~InBounds(vec, i + 3) THEN Panicked
    ELSE Read(i + 4, ((At(vec, i) * U8 + At(vec, i + 1)) * U8
                         + At(vec, i + 2)) * U8 + At(vec, i + 3))

\* one pass of the question loop of Message::from
read_question(vec, i) ==
    LET n == read_until_zero(vec, i) IN
    IF n.panic THEN Panicked ELSE
    LET t == read_u16(vec, n.i + 1) IN
    IF t.panic THEN Panicked ELSE
    LET c == read_u16(vec, t.i) IN
    IF c.panic THEN Panicked ELSE
    Read(c.i, [qname |-> Append(n.val, 0), qtype |-> t.val, qclass |-> c.val])

\* the rdata loop of get_resource: n bytes from i on
read_rdata(vec, i, n) ==
    IF i + n > Len(vec) THEN Panicked
    ELSE Read(i + n, SubSeq(vec, i + 1, i + n))

\* the name of a resource record: the cursor after it, and its bytes
resource_name(vec, i) ==
    IF ~InBounds(vec, i) THEN Panicked
    ELSE IF BitAnd(At(vec, i), 192) = 192
    THEN IF ~InBounds(vec, i + 1) THEN Panicked
         ELSE LET offset == BitAnd(from_be_bytes(At(vec, i), At(vec, i + 1)), 63)
                  n == read_until_zero(vec, offset)
              IN  IF n.panic THEN Panicked ELSE Read(i + 2, Append(n.val, 0))
    ELSE LET n == read_until_zero(vec, i)
         IN  IF n.panic THEN Panicked ELSE Read(n.i + 1, Append(n.val, 0))

get_resource(vec, i) ==
    LET n == resource_name(vec, i) IN
    IF n.panic THEN Panicked ELSE
    LET t == read_u16(vec, n.i) IN
    IF t.panic THEN Panicked ELSE
    LET c == read_u16(vec, t.i) IN
    IF c.panic THEN Panicked ELSE
    LET l == read_u32(vec, c.i) IN
    IF l.panic THEN Panicked ELSE
    LET r == read_u16(vec, l.i) IN
    IF r.panic THEN Panicked ELSE
    LET d == read_rdata(vec, r.i, r.val) IN
    IF d.panic THEN Panicked ELSE
    Read(d.i, [name |-> n.val, rtype |-> t.val, rclass |-> c.val,
               ttl |-> l.val, rdlength |-> r.val, rdata |-> d.val])

\* a loop `for _ in 0..n` that reads one record per pass with `one` and
\* pushes it
RECURSIVE read_many(_, _, _, _, _)
read_many(one(_, _), vec, i, n, acc) ==
    IF n = 0 THEN Read(i, acc)
    ELSE LET r == one(vec, i)
         IN  IF r.panic THEN Panicked
             ELSE read_many(one, vec, r.i, n - 1, Append(acc, r.val))

\* the loop `for _ in 0..header.qdcount` of Message::from
read_questions(vec, i, n) == read_many(read_question, vec, i, n, <<>>)

\* the loops `for _ in 0..header.ancount` (nscount, arcount) of Message::from
read_resources(vec, i, n) == read_many(get_resource, vec, i, n, <<>>)

NoMessage == Message_new(0)

from(vec) ==
    IF Len(vec) < HeaderLen THEN [panic |-> TRUE, msg |-> NoMessage] ELSE
    LET header == [id      |-> from_be_bytes(At(vec, 0), At(vec, 1)),
                   flags   |-> from_be_bytes(At(vec, 2), At(vec, 3)),
                   qdcount |-> from_be_bytes(At(vec, 4), At(vec, 5)),
                   ancount |-> from_be_bytes(At(vec, 6), At(vec, 7)),
                   nscount |-> from_be_bytes(At(vec, 8), At(vec, 9)),
                   arcount |-> from_be_bytes(At(vec, 10), At(vec, 11))]
        qd == read_questions(vec, HeaderLen, header.qdcount)
    IN
    IF qd.panic THEN [panic |-> TRUE, msg |-> NoMessage] ELSE
    LET an == read_resources(vec, qd.i, header.ancount) IN
    IF an.panic THEN [panic |-> TRUE, msg |-> NoMessage] ELSE
    LET ns == read_resources(vec, an.i, header.nscount) IN
    IF ns.panic THEN [panic |-> TRUE, msg |-> NoMessage] ELSE
    LET ar == read_resources(vec, ns.i, header.arcount) IN
    IF ar.panic THEN [panic |-> TRUE, msg |-> NoMessage] ELSE
    [panic |-> FALSE,
     msg |-> [header |-> header, question |-> qd.val, answer |-> an.val,
              authority |-> ns.val, additional |-> ar.val]]

(***************************************************************************)
(* Inputs of the operations.                                               *)
(***************************************************************************)
RECURSIVE SeqsOfLen(_, _)
SeqsOfLen(S, n) ==
    IF n = 0 THEN {<<>>} ELSE {Append(s, x) : s \in SeqsOfLen(S, n - 1), x \in S}

SeqsUpTo(S, n) == UNION {SeqsOfLen(S, k) : k \in 0..n}

Ids == {0, 258}

FlagInputs == {0, 256, 30720}

QtypeInputs == {1, 3}

\* a refused class; SpecQclass below calls set_qclass with every u16
QclassInputs == {5}

\* vec!["a."] and vec!["a", " b.c"]
QuestionArgs == {<<<<97, 46>>>>, <<<<97>>, <<32, 98, 46, 99>>>>}

FlagSeeds == {0, 256, 33152}

QclassSeeds == {0, 1, 255}

\* 'a', '.', ' ' and U+00E9
Alphabet == {97, Dot, 32, 233}

Repeat(c, n) == SubSeq([k \in 1..n |-> c], 1, n)

\* "www.google.com"
WwwGoogleCom ==
    <<119, 119, 119, 46, 103, 111, 111, 103, 108, 101, 46, 99, 111, 109>>

\* names at the size limits: a label of 63, 64 and 256 bytes, and names of
\* four labels that encode to 255 and to 257 bytes
LongNames ==
    {WwwGoogleCom, Repeat(97, 63), Repeat(97, 64), Repeat(97, 256),
     Repeat(97, 63) \o <<Dot>> \o Repeat(98, 63) \o <<Dot>> \o Repeat(99, 63)
         \o <<Dot>> \o Repeat(100, 61),
     Repeat(97, 63) \o <<Dot>> \o Repeat(98, 63) \o <<Dot>> \o Repeat(99, 63)
         \o <<Dot>> \o Repeat(100, 63)}

EncodeNames == SeqsUpTo(Alphabet, MaxNameLen) \cup LongNames

\* a well-formed encoded name, as a server would send it
WireNames == {<<1, 97, 0>>, <<1, 97, 1, 98, 0>>}

NetHeader(id, qd, an) ==
    to_be_bytes(id) \o to_be_bytes(33152) \o to_be_bytes(qd) \o to_be_bytes(an)
        \o to_be_bytes(0) \o to_be_bytes(0)

\* two questions; the name of the second is a pointer to offset 12
CompressedQueries ==
    {NetHeader(258, 2, 0) \o n \o to_be_bytes(1) \o to_be_bytes(1)
        \o <<192, HeaderLen>> \o to_be_bytes(t) \o to_be_bytes(c) :
        n \in WireNames, t \in {1, 257}, c \in {1, 255}}

\* one question and one answer; the answer's name is a pointer to offset 12
\* or is written in full
Responses ==
    {NetHeader(258, 1, 1) \o n \o to_be_bytes(1) \o to_be_bytes(1)
        \o rn \o to_be_bytes(1) \o to_be_bytes(1) \o <<0, 0, 0, 60>>
        \o to_be_bytes(2) \o <<1, 1>> :
        n \in WireNames, rn \in {<<192, HeaderLen>>, <<1, 99, 0>>}}

PointerNameLens == {1, 50}

\* one question whose name is one label of len bytes, an answer whose name
\* is written in full, at offset 18 + len, and a second answer whose name is
\* a pointer to the name of the first
PointerResponse(len) ==
    NetHeader(258, 1, 2) \o <<len>> \o Repeat(97, len) \o <<0>>
        \o to_be_bytes(1) \o to_be_bytes(1)
        \o <<1, 99, 0>> \o to_be_bytes(1) \o to_be_bytes(1) \o <<0, 0, 0, 60>>
        \o to_be_bytes(0)
        \o to_be_bytes(49152 + HeaderLen + len + 6) \o to_be_bytes(5)
        \o to_be_bytes(1) \o <<0, 0, 0, 60>> \o to_be_bytes(0)

PointerResponses == {PointerResponse(len) : len \in PointerNameLens}

NetworkBuffers == CompressedQueries \cup Responses \cup PointerResponses

Prefixes(b) == {SubSeq(b, 1, k) : k \in HeaderLen..Len(b)}

IsStrictPrefix(a, b) == Len(a) < Len(b) /\ a = SubSeq(b, 1, Len(a))

\* what Message::from is given when a message is at hand: its own packet,
\* or a response to it
DecodeInputs(m) ==
    LET p == get_packet(m)
    IN  (IF p.panic THEN {} ELSE {p.bytes}) \cup Responses

\* what Message::from is given by the network: a buffer, whole or cut short
NetworkInputs == UNION {Prefixes(b) : b \in NetworkBuffers}

(***************************************************************************)
(* The state machine: msg is the Message at hand, built says that it was   *)
(* made by Message::new and the setters (not by Message::from), last is    *)
(* the last call, its argument and what it returned.                       *)
(***************************************************************************)
NoCall == [op |-> "none", arg |-> 0, ret |-> Ok]

Call(op, arg, ret) == [op |-> op, arg |-> arg, ret |-> ret]

\* a panic unwinds the caller: nothing runs after it
Crashed == last.ret.kind = "panic"

Init ==
    /\ \E id \in Ids : msg = Message_new(id)
    /\ built = TRUE
    /\ last = NoCall

New ==
    \E id \in Ids :
        /\ ~Crashed
        /\ msg' = Message_new(id)
        /\ built' = TRUE
        /\ last' = Call("new", id, Ok)

SetQuestions(questions) ==
    /\ ~Crashed
    /\ Len(msg.question) < MaxQuestions
    /\ LET r == set_questions(msg, questions)
       IN  /\ msg' = r.msg
           /\ last' = Call("set_questions", questions, r.ret)
    /\ UNCHANGED built

SetId(id) ==
    /\ ~Crashed
    /\ msg' = [msg EXCEPT !.header = set_id(msg.header, id)]
    /\ last' = Call("set_id", id, Ok)
    /\ UNCHANGED built

SetFlags(flags) ==
    /\ ~Crashed
    /\ LET r == set_flags(msg.header, flags)
       IN  /\ msg' = [msg EXCEPT !.header = r.header]
           /\ last' = Call("set_flags", flags, r.ret)
    /\ UNCHANGED built

SetQtype(k, qtype) ==
    /\ ~Crashed
    /\ k \in 1..Len(msg.question)
    /\ LET r == set_qtype(msg.question[k], qtype)
       IN  /\ msg' = [msg EXCEPT !.question[k] = r.question]
           /\ last' = Call("set_qtype", <<k, qtype>>, r.ret)
    /\ UNCHANGED built

SetQclass(k, qclass) ==
    /\ ~Crashed
    /\ k \in 1..Len(msg.question)
    /\ LET r == set_qclass(msg.question[k], qclass)
       IN  /\ msg' = [msg EXCEPT !.question[k] = r.question]
           /\ last' = Call("set_qclass", <<k, qclass>>, r.ret)
    /\ UNCHANGED built

GetPacket ==
    /\ ~Crashed
    /\ LET p == get_packet(msg)
       IN  last' = Call("get_packet", 0,
                        IF p.panic THEN Err("panic", 0) ELSE [kind |-> "Ok", val |-> p.bytes])
    /\ UNCHANGED <<msg, built>>

From(vec) ==
    /\ ~Crashed
    /\ LET r == from(vec)
       IN
        IF r.panic
        THEN /\ last' = Call("from", vec, Err("panic", 0))
             /\ UNCHANGED <<msg, built>>
        ELSE /\ last' = Call("from", vec, Ok)
             /\ msg' = r.msg
             /\ built' = FALSE

Next ==
    \/ New
    \/ \E questions \in QuestionArgs : SetQuestions(questions)
    \/ \E id \in Ids : SetId(id)
    \/ \E flags \in FlagInputs : SetFlags(flags)
    \/ \E k \in 1..MaxQuestions, qtype \in QtypeInputs : SetQtype(k, qtype)
    \/ \E k \in 1..MaxQuestions, qclass \in QclassInputs : SetQclass(k, qclass)
    \/ GetPacket
    \/ \E vec \in DecodeInputs(msg) : From(vec)

Spec == Init /\ [][Next]_vars

\* one call of set_questions, on a new message or on one that holds a
\* question, with every short name and the names at the size limits
InitEncode ==
    /\ \E id \in Ids :
          msg \in {Message_new(id), set_questions(Message_new(id), <<<<97>>>>).msg}
    /\ built = TRUE
    /\ last = NoCall

NextEncode ==
    /\ last.op = "none"
    /\ \E questions \in SeqsUpTo(EncodeNames, MaxNames) : SetQuestions(questions)

SpecEncode == InitEncode /\ [][NextEncode]_vars

\* one call of Header::set_flags with any u16, on a header that holds flags
\* accepted before
InitFlags ==
    /\ \E flags \in FlagSeeds :
          msg = [Message_new(258) EXCEPT !.header = set_flags(@, flags).header]
    /\ built = TRUE
    /\ last = NoCall

NextFlags ==
    /\ last.op = "none"
    /\ \E flags \in 0..(U16 - 1) : SetFlags(flags)

SpecFlags == InitFlags /\ [][NextFlags]_vars

\* one call of Question::set_qclass with any u16, on the question that
\* set_questions made (qclass 0) or whose qclass was set before
InitQclass ==
    /\ \E qclass \in QclassSeeds :
          msg = [set_questions(Message_new(258), <<<<97>>>>).msg
                   EXCEPT !.question[1] = set_qclass(@, qclass).question]
    /\ built = TRUE
    /\ last = NoCall

NextQclass ==
    /\ last.op = "none"
    /\ \E qclass \in 0..(U16 - 1) : SetQclass(1, qclass)

SpecQclass == InitQclass /\ [][NextQclass]_vars

\* decoding what the network delivers
NextDecode == \E vec \in NetworkInputs : From(vec)

SpecDecode == Init /\ [][NextDecode]_vars

(***************************************************************************)
(* The properties of the codec.                                            *)
(***************************************************************************)

\* C1: Message::from never panics, and a network buffer cut short of what
\* its counts, names and rdlength fields require ends in a Malformed-message
\* error.
C1_DecodeNeverPanics ==
    last.op = "from" =>
        /\ last.ret.kind # "panic"
        /\ (\E b \in NetworkBuffers : IsStrictPrefix(last.arg, b))
              => last.ret.kind = "MalformedMessage"

\* C2: decoding the packet of a message built with Message::new and the
\* setters gives back its header (id, flags, the four counts) and its
\* questions.
C2_RoundTrip ==
    [][(/\ last'.op = "from"
        /\ built
        /\ msg.answer = <<>> /\ msg.authority = <<>> /\ msg.additional = <<>>
        /\ ~get_packet(msg).panic
        /\ last'.arg = get_packet(msg).bytes)
       => (/\ last'.ret.kind = "Ok"
           /\ msg'.header = msg.header
           /\ msg'.question = msg.question)]_vars

\* C3: with a full name at offset 12 and a pointer to offset 12 as the name
\* of the second question, both questions decode to the same name and the
\* second question's qtype and qclass are the 4 bytes after the pointer.
C3_CompressedQuestion ==
    (last.op = "from" /\ last.arg \in CompressedQueries) =>
        LET vec == last.arg
            n == Len(vec)
        IN  /\ last.ret.kind = "Ok"
            /\ Len(msg.question) = 2
            /\ msg.question[2].qname = msg.question[1].qname
            /\ msg.question[2].qtype = vec[n - 3] * 256 + vec[n - 2]
            /\ msg.question[2].qclass = vec[n - 1] * 256 + vec[n]

\* C4: the four counts of the header equal the lengths of the four
\* sequences the message holds.
C4_CountInvariant ==
    /\ msg.header.qdcount = Len(msg.question)
    /\ msg.header.ancount = Len(msg.answer)
    /\ msg.header.nscount = Len(msg.authority)
    /\ msg.header.arcount = Len(msg.additional)

\* a decoded response with an answer, to which a question was then added
C4_Witness ==
    /\ ~built
    /\ last.op = "set_questions"
    /\ Len(msg.answer) = 1
    /\ Len(msg.question) = 2

\* the wire form of a name as RFC 1035 and the codec's contract define it:
\* per label one length byte and the label's UTF-8 bytes, then one zero byte
Utf8(c) ==
    IF c < 128 THEN <<c>>
    ELSE IF c < 2048 THEN <<192 + (c \div 64), 128 + (c % 64)>>
    ELSE IF c < 65536
    THEN <<224 + (c \div 4096), 128 + ((c \div 64) % 64), 128 + (c % 64)>>
    ELSE <<240 + (c \div 262144), 128 + ((c \div 4096) % 64),
           128 + ((c \div 64) % 64), 128 + (c % 64)>>

RawBytes(s) == Concat([k \in 1..Len(s) |-> Utf8(s[k])])

TrimmedLabels(name) ==
    LET parts == split(name, Dot)
    IN  [k \in 1..Len(parts) |-> trim(parts[k])]

WireName(name) ==
    LET ls == TrimmedLabels(name)
    IN  Append(Concat([k \in 1..Len(ls) |->
                          <<Len(RawBytes(ls[k]))>> \o RawBytes(ls[k])]), 0)

TooLong(name) ==
    \/ \E k \in 1..Len(TrimmedLabels(name)) :
           Len(RawBytes(TrimmedLabels(name)[k])) > 63
    \/ Len(WireName(name)) > 255

\* C5: set_questions(names) with n names appends n questions in argument
\* order, each with the encoded name of its own argument and its own zero
\* terminator, and adds n to qdcount.
C5_OneQuestionPerName ==
    [][last'.op = "set_questions" =>
         LET names == last'.arg
             n == Len(names)
             old == Len(msg.question)
         IN  /\ Len(msg'.question) = old + n
             /\ SubSeq(msg'.question, 1, old) = msg.question
             /\ \A k \in 1..n : msg'.question[old + k].qname = WireName(names[k])
             /\ msg'.header.qdcount = msg.header.qdcount + n]_vars

\* C6: set_questions returns a Name-too-long error, adds no question and
\* leaves qdcount unchanged when a label is longer than 63 bytes or the
\* encoded name is longer than 255 bytes.
C6_NameSizeLimits ==
    [][(/\ last'.op = "set_questions"
        /\ \E k \in 1..Len(last'.arg) : TooLong(last'.arg[k]))
       => (last'.ret.kind = "NameTooLong" /\ msg' = msg)]_vars

\* C7: the qname set_questions makes of one dotted name within the size
\* limits is, per label, a length byte equal to the byte length of the
\* trimmed label and the label's raw bytes, then one zero byte.
C7_NameEncoding ==
    (/\ last.op = "set_questions"
     /\ Len(last.arg) = 1
     /\ ~TooLong(last.arg[1]))
    => msg.question[Len(msg.question)].qname = WireName(last.arg[1])

\* C8: set_flags(v) stores v and returns Ok exactly when opcode is in 0..2,
\* Z is 0 and rcode is in 0..5; otherwise it returns the error of the first
\* field violated, in the order opcode, Z, rcode, with that field's value,
\* and the stored flags stay as they were.
C8_SetFlagsValidates ==
    [][last'.op = "set_flags" =>
         LET v == last'.arg
             opcode == (v \div 2048) % 16
             z == (v \div 16) % 8
             rcode == v % 16
         IN  IF opcode <= 2 /\ z = 0 /\ rcode <= 5
             THEN last'.ret = Ok /\ msg'.header.flags = v
             ELSE /\ msg'.header.flags = msg.header.flags
                  /\ last'.ret =
                       IF opcode > 2 THEN Err("InvalidOpcodeFlag", opcode)
                       ELSE IF z # 0 THEN Err("InvalidZFlag", z)
                       ELSE Err("InvalidRcodeFlag", rcode)]_vars

\* set_flags(0b0000_0000_0000_1111) was refused for its rcode, 15
C8_Witness ==
    /\ last.op = "set_flags"
    /\ last.arg = 15
    /\ last.ret = Err("InvalidRcodeFlag", 15)
    /\ msg.header.flags = 33152

\* C9 as stated: set_flags(0b0111_1000_0000_0000) fails with the
\* Invalid-opcode-field error reporting the value 3.
C9_OpcodeReportedAs3 ==
    (last.op = "set_flags" /\ last.arg = 30720)
        => last.ret = Err("InvalidOpcodeFlag", 3)

\* C9: set_flags(0b0111_1000_0000_0000) fails with the Invalid-opcode-field
\* error reporting the value 15, the four opcode bits of the argument.
C9_OpcodeReportedAs15 ==
    (last.op = "set_flags" /\ last.arg = 30720)
        => last.ret = Err("InvalidOpcodeFlag", 15)

\* set_flags(0b0111_1000_0000_0000) was called and refused
C9_Witness ==
    /\ last.op = "set_flags"
    /\ last.arg = 30720
    /\ last.ret.kind = "InvalidOpcodeFlag"

\* C10: set_qclass(c) fails with Invalid-qclass(c) and leaves the stored
\* qclass as it was exactly when c is 0, in 5..253, in 256..65279 or 65535;
\* for every other c it succeeds and the stored qclass becomes c.
C10_SetQclassValidates ==
    [][last'.op = "set_qclass" =>
         LET k == last'.arg[1]
             c == last'.arg[2]
         IN  IF c = 0 \/ (5 <= c /\ c <= 253) \/ (256 <= c /\ c <= 65279)
                \/ c = 65535
             THEN /\ last'.ret = Err("InvalidQClass", c)
                  /\ msg'.question[k].qclass = msg.question[k].qclass
             ELSE /\ last'.ret = Ok
                  /\ msg'.question[k].qclass = c]_vars

\* set_qclass(254) was accepted on a question whose qclass was 255
C10_Witness ==
    /\ last.op = "set_qclass"
    /\ last.arg = <<1, 254>>
    /\ last.ret = Ok
    /\ msg.question[1].qclass = 254

\* C11: when Message::from has decoded a buffer to a message d, answers and
\* all, Message::from(d.get_packet()) succeeds and gives the questions of d:
\* as many, with the same qname, qtype and qclass.
C11_ReencodeKeepsQuestions ==
    [][(/\ last.op = "from"
        /\ last.ret.kind = "Ok"
        /\ last'.op = "from"
        /\ ~get_packet(msg).panic
        /\ last'.arg = get_packet(msg).bytes)
       => (/\ last'.ret.kind = "Ok"
           /\ Len(msg'.question) = Len(msg.question)
           /\ \A k \in 1..Len(msg.question) :
                 /\ msg'.question[k].qname = msg.question[k].qname
                 /\ msg'.question[k].qtype = msg.question[k].qtype
                 /\ msg'.question[k].qclass = msg.question[k].qclass)]_vars

\* the label sequence that starts at offset p of vec, its closing zero
\* included
RECURSIVE NameAt(_, _)
NameAt(vec, p) ==
    IF At(vec, p) = 0 THEN <<0>>
    ELSE SubSeq(vec, p + 1, p + 1 + At(vec, p))
            \o NameAt(vec, p + 1 + At(vec, p))

\* C12: when the name of a resource record starts with a pointer at position
\* q, the offset p is the 14 bits of the two pointer bytes, the decoded name
\* is the label sequence at offset p of the buffer, and rtype is read at
\* q + 2.
C12_ResourceNamePointer ==
    (last.op = "from" /\ last.arg \in PointerResponses) =>
        LET vec == last.arg
            q == Len(vec) - 12
            p == (At(vec, q) % 64) * 256 + At(vec, q + 1)
        IN  /\ BitAnd(At(vec, q), 192) = 192
            /\ p < Len(vec)
            /\ last.ret.kind = "Ok"
            /\ Len(msg.answer) = 2
            /\ msg.answer[2].name = NameAt(vec, p)
            /\ msg.answer[2].rtype = from_be_bytes(At(vec, q + 2), At(vec, q + 3))

====
